---- MODULE Spec2Model ----
(***************************************************************************)
(* Rodun: cutting-stock optimizer (optimizeCuts), cut-to-part attribution  *)
(* (generatePDF) and the application state that drives them (App::run).    *)
(*                                                                         *)
(* Lengths are C++ doubles.  They are modelled as fixed-point integers in  *)
(* units of 1/Inch of an inch, fine enough to tell apart two lengths that  *)
(* differ by less than the 0.01 tolerance of generatePDF.  Rounding error  *)
(* of double addition is below this resolution and is not modelled.        *)
(***************************************************************************)
EXTENDS Integers, Sequences, FiniteSets, TLC

\* ------------------------------------------------------------------ units
\* model units per inch (resolution of a modelled double)
Inch == 1000
\* the 0.01 of std::abs(prevLen - partLength) < 0.01, in model units
Tol == 10
\* stockLengths[part.dimension] = 288
DefaultStockLength == 288

\* ----------------------------------------------------------------- bounds
\* longest parts list explored
MaxParts == 2
\* largest number of cuts (sum of the quantities) of one group explored
MaxCuts == 5
\* longest parts list the application is driven to
MaxAppParts == 3
\* longest parts list of near-equal lengths explored
MaxNearParts == 3

\* ------------------------------------------------------------ input sets
\* part_number values: left empty, or one of two labels
PartNumbers == {"", "P1", "P2"}
\* part lengths: 30", 40", 40.005" (within Tol of 40"), 50"
Lengths == {30 * Inch, 40 * Inch, 40 * Inch + 5, 50 * Inch}
\* malformed length handed to optimizeCuts directly
BadLengths == {0}
Quantities == 1..MaxCuts
\* malformed quantity handed to optimizeCuts directly
BadQuantities == {0}
\* stock lengths in whole inches
StockInches == {35, 50, 90, 100}
\* malformed stock length handed to optimizeCuts directly
BadStockInches == {0}
\* the dimension class of the group handed to the core functions
CoreDim == "1 x 1"
\* dimension classes selected in the application
Dims == {"1 x 1", "2 x 2"}
\* values typed into the application's fields: Part Number, Part Length
\* (0 is refused), Quantity (0 is refused), a stock length (0 is clamped to 1)
AppPartNumbers == {"", "P1"}
AppLengths == {0, 100 * Inch}
AppQuantities == {0, 2}
StockEdits == {0, 288}

\* struct Part
Part(n, l, q, d) == [part_number |-> n, length |-> l, quantity |-> q, dimension |-> d]

\* ------------------------------------------------------------ optimizeCuts
Abs(x) == IF x < 0 THEN -x ELSE x

MinOf(S) == CHOOSE x \in S : \A y \in S : x <= y

RECURSIVE Repeat(_, _)
\* for (int i = 0; i < part.quantity; ++i) allParts.push_back(part.length)
Repeat(x, n) == IF n <= 0 THEN <<>> ELSE <<x>> \o Repeat(x, n - 1)

RECURSIVE ExpandParts(_)
\* for (const auto& part : parts) ...
ExpandParts(ps) ==
    IF ps = <<>> THEN <<>>
    ELSE Repeat(Head(ps).length, Head(ps).quantity) \o ExpandParts(Tail(ps))

RECURSIVE InsertDesc(_, _)
InsertDesc(x, s) ==
    IF s = <<>> THEN <<x>>
    ELSE IF x >= Head(s) THEN <<x>> \o s
    ELSE <<Head(s)>> \o InsertDesc(x, Tail(s))

\* mutant of SortDesc: the call of std::ranges::sort is missing
SortSkipped(s) == s

RECURSIVE SortDesc(_)
\* std::ranges::sort(allParts, std::greater<>())
SortDesc(s) == IF s = <<>> THEN <<>> ELSE InsertDesc(Head(s), SortDesc(Tail(s)))

RECURSIVE Used(_)
\* double used = 0.0; for (double p : stock) used += p;
Used(stock) == IF stock = <<>> THEN 0 ELSE Head(stock) + Used(Tail(stock))

\* the stocks the scan of one cut accepts: used + partLen <= stockLength
Fits(result, partLen, stockLength) ==
    {i \in 1..Len(result) : Used(result[i]) + partLen <= stockLength}

\* mutant of PlaceCut: a cut that fits no stock is dropped instead of opening one
PlaceCutDrop(result, partLen, stockLength) ==
    IF Fits(result, partLen, stockLength) = {}
    THEN result
    ELSE [result EXCEPT ![MinOf(Fits(result, partLen, stockLength))] = Append(@, partLen)]

\* mutant of PlaceCut: the fit test is used + partLen < stockLength
PlaceCutStrict(result, partLen, stockLength) ==
    LET fits == {i \in 1..Len(result) : Used(result[i]) + partLen < stockLength}
    IN IF fits = {} THEN Append(result, <<partLen>>)
       ELSE [result EXCEPT ![MinOf(fits)] = Append(@, partLen)]

\* mutant of PlaceCut: the scan of the stocks does not break at the first fit,
\* so the cut goes to the last stock that has room
PlaceCutLastFit(result, partLen, stockLength) ==
    LET fits == Fits(result, partLen, stockLength)
    IN IF fits = {} THEN Append(result, <<partLen>>)
       ELSE [result EXCEPT ![CHOOSE i \in fits : \A j \in fits : j <= i] = Append(@, partLen)]

\* mutant of PlaceCut: placed is never set, so every cut opens a stock of its own
PlaceCutAlwaysNew(result, partLen, stockLength) == Append(result, <<partLen>>)

\* one iteration of for (double partLen : allParts)
PlaceCut(result, partLen, stockLength) ==
    LET fits == Fits(result, partLen, stockLength)
    IN IF fits = {} THEN Append(result, <<partLen>>)
       ELSE [result EXCEPT ![MinOf(fits)] = Append(@, partLen)]

RECURSIVE PlaceAll(_, _, _)
PlaceAll(allParts, stockLength, result) ==
    IF allParts = <<>> THEN result
    ELSE PlaceAll(Tail(allParts), stockLength, PlaceCut(result, Head(allParts), stockLength))

\* void optimizeCuts(parts, stockLength, result): result is an in/out parameter
optimizeCuts(parts, stockLength, result) ==
    PlaceAll(SortDesc(ExpandParts(parts)), stockLength, result)

\* ------------------------------------------------------------- generatePDF
\* the parts of one dimension class, in catalog order
PartsOfDim(parts, dim) == SelectSeq(parts, LAMBDA p : p.dimension = dim)

\* mutant of lengthToPartMap: the test part.dimension == dim is missing
lengthToPartMapAnyDim(parts, dim) ==
    [l \in {parts[i].length : i \in 1..Len(parts)} |->
        SelectSeq(parts, LAMBDA p : p.length = l)]

\* std::unordered_map<double, std::vector<Part>> lengthToPartMap: keyed by the
\* exact double; each vector is in catalog order (push_back while walking parts)
lengthToPartMap(parts, dim) ==
    [l \in {parts[i].length : i \in {j \in 1..Len(parts) : parts[j].dimension = dim}} |->
        SelectSeq(parts, LAMBDA p : p.dimension = dim /\ p.length = l)]

RECURSIVE UniqueFold(_, _, _)
UniqueFold(ps, dim, acc) ==
    IF ps = <<>> THEN acc
    ELSE LET part == Head(ps)
             found == \E i \in 1..Len(acc) : acc[i].part_number = part.part_number
         IN UniqueFold(Tail(ps), dim,
                       IF part.dimension = dim /\ ~found THEN Append(acc, part) ELSE acc)

\* std::vector<Part> uniquePartsForDim: first part of each part_number
uniquePartsForDim(parts, dim) == UniqueFold(parts, dim, <<>>)

\* partNumberToID[part.part_number] = uniquePartsForDim.size()  (1-based)
partNumberToID(parts, dim) ==
    LET u == uniquePartsForDim(parts, dim)
    IN [n \in {u[i].part_number : i \in 1..Len(u)} |->
           CHOOSE i \in 1..Len(u) : u[i].part_number = n]

\* partNumberToID[currentPartNumber]: operator[] yields 0 for a missing key
IdOf(ids, partNumber) == IF partNumber \in DOMAIN ids THEN ids[partNumber] ELSE 0

\* std::abs(prevLen - partLength) < 0.01
Near(a, b) == Abs(a - b) < Tol

\* cutsSeenSoFar: cuts within tolerance of partLength in all earlier stocks and
\* at earlier positions of this stock (indices are 1-based here)
cutsSeenSoFar(stocks, stockIndex, partIndex, partLength) ==
    Cardinality({sp \in UNION {{<<s, p>> : p \in 1..Len(stocks[s])} : s \in 1..(stockIndex - 1)} :
                    Near(stocks[sp[1]][sp[2]], partLength)})
    + Cardinality({p \in 1..(partIndex - 1) : Near(stocks[stockIndex][p], partLength)})

RECURSIVE SelectLoopOffByOne(_, _, _, _)
\* mutant of SelectLoop: the test is cutsSeenSoFar <= cumulativeQuantity + p.quantity
SelectLoopOffByOne(partsWithLength, k, seen, cumulativeQuantity) ==
    IF k > Len(partsWithLength) THEN 0
    ELSE IF seen <= cumulativeQuantity + partsWithLength[k].quantity THEN k
    ELSE SelectLoopOffByOne(partsWithLength, k + 1, seen,
                            cumulativeQuantity + partsWithLength[k].quantity)

RECURSIVE SelectLoop(_, _, _, _)
\* for (const auto& p : partsWithLength) { if (cutsSeenSoFar < cumulativeQuantity
\* + p.quantity) { ...; break; } cumulativeQuantity += p.quantity; }
\* the position in partsWithLength of the part selected, 0 when the loop ends
\* without selecting one
SelectLoop(partsWithLength, k, seen, cumulativeQuantity) ==
    IF k > Len(partsWithLength) THEN 0
    ELSE IF seen < cumulativeQuantity + partsWithLength[k].quantity THEN k
    ELSE SelectLoop(partsWithLength, k + 1, seen,
                    cumulativeQuantity + partsWithLength[k].quantity)

\* first pass (the diagram): the ID drawn in the circle of one cut and the
\* part number it was resolved to; map is lengthToPartMap, ids is partNumberToID
DiagramCut(map, ids, stocks, stockIndex, partIndex) ==
    LET partLength == stocks[stockIndex][partIndex]
        fallback == [partID |-> 1, part_number |-> ""]
    IN IF partLength \notin DOMAIN map THEN fallback
       ELSE LET partsWithLength == map[partLength]
            IN IF Len(partsWithLength) = 1
               THEN [partID |-> IdOf(ids, partsWithLength[1].part_number),
                     part_number |-> partsWithLength[1].part_number]
               ELSE LET k == SelectLoop(partsWithLength, 1,
                                        cutsSeenSoFar(stocks, stockIndex, partIndex, partLength), 0)
                    IN IF k = 0 THEN fallback
                       ELSE [partID |-> IdOf(ids, partsWithLength[k].part_number),
                             part_number |-> partsWithLength[k].part_number]

\* second pass (the summary): the part number one cut is booked on; "" when no
\* part is selected or the length is not in the map
SummaryCut(map, stocks, stockIndex, partIndex) ==
    LET partLength == stocks[stockIndex][partIndex]
    IN IF partLength \notin DOMAIN map THEN ""
       ELSE LET partsWithLength == map[partLength]
            IN IF Len(partsWithLength) = 1 THEN partsWithLength[1].part_number
               ELSE LET k == SelectLoop(partsWithLength, 1,
                                        cutsSeenSoFar(stocks, stockIndex, partIndex, partLength), 0)
                    IN IF k = 0 THEN "" ELSE partsWithLength[k].part_number

\* partToStocks[currentPartNumber].push_back(stockIndex + 1), guarded by
\* !currentPartNumber.empty(); uniqueStocks is the std::set built from it
uniqueStocks(map, stocks, partNumber) ==
    IF partNumber = "" THEN {}
    ELSE {s \in 1..Len(stocks) :
             \E p \in 1..Len(stocks[s]) : SummaryCut(map, stocks, s, p) = partNumber}

\* std::to_string(stockNum).length()
Digits(n) == IF n < 10 THEN 1 ELSE IF n < 100 THEN 2 ELSE 3

RECURSIVE SumDigits(_)
SumDigits(S) ==
    IF S = {} THEN 0 ELSE LET x == CHOOSE y \in S : TRUE IN Digits(x) + SumDigits(S \ {x})

RECURSIVE Ascending(_)
\* iteration of a std::set<int>
Ascending(S) == IF S = {} THEN <<>> ELSE <<MinOf(S)>> \o Ascending(S \ {MinOf(S)})

\* the Stocks column: the numbers joined by ",", or "<n> stocks" when the joined
\* text is longer than 12 characters; empty when the part has no entry
stockText(S) ==
    IF S = {} THEN [kind |-> "list", nums |-> <<>>]
    ELSE IF SumDigits(S) + (Cardinality(S) - 1) > 12
         THEN [kind |-> "count", nums |-> <<Cardinality(S)>>]
         ELSE [kind |-> "list", nums |-> Ascending(S)]

\* the catalog positions of the parts pushed to lengthToPartMap[partLength] for
\* dim, in the order they were pushed
RecordsWithLength(parts, dim, partLength) ==
    Ascending({j \in 1..Len(parts) :
                  parts[j].dimension = dim /\ parts[j].length = partLength})

\* the catalog position of the part p that both passes select for one cut
\* (the only part of that length, or the part at which the loop over
\* partsWithLength breaks); 0 when no part is selected and the defaults
\* partID = 1, currentPartNumber = "" stay
SelectedRecord(parts, dim, stocks, stockIndex, partIndex) ==
    LET partLength == stocks[stockIndex][partIndex]
        records == RecordsWithLength(parts, dim, partLength)
        partsWithLength == [i \in 1..Len(records) |-> parts[records[i]]]
    IN IF records = <<>> THEN 0
       ELSE IF Len(records) = 1 THEN records[1]
       ELSE LET k == SelectLoop(partsWithLength, 1,
                                cutsSeenSoFar(stocks, stockIndex, partIndex, partLength), 0)
            IN IF k = 0 THEN 0 ELSE records[k]

\* what generatePDF writes for one dimension class: the stock diagram (per stock
\* the used length, the waste and per cut its length and the ID drawn on it) and
\* the rows of the parts summary
PageOf(parts, dim, stocks, stockLen) ==
    LET map == lengthToPartMap(parts, dim)
        ids == partNumberToID(parts, dim)
        u == uniquePartsForDim(parts, dim)
    IN [stockLen |-> stockLen,
        diagram |->
           [s \in 1..Len(stocks) |->
               [totalUsed |-> Used(stocks[s]),
                waste |-> stockLen * Inch - Used(stocks[s]),
                cuts |-> [p \in 1..Len(stocks[s]) |->
                             LET cut == DiagramCut(map, ids, stocks, s, p)
                             IN [length |-> stocks[s][p],
                                 partID |-> cut.partID,
                                 part_number |-> cut.part_number]]]],
        rows |->
           [i \in 1..Len(u) |->
               [ID |-> i,
                part_number |-> u[i].part_number,
                length |-> u[i].length,
                quantity |-> u[i].quantity,
                stocks |-> stockText(uniqueStocks(map, stocks, u[i].part_number)),
                dimension |-> u[i].dimension]]]

\* generatePDF(results, stockLengths, parts, outputPath): one page group per
\* entry of results (the order of the pages is the map's iteration order and is
\* not part of the model)
generatePDF(results, stockLengths, parts) ==
    [dim \in DOMAIN results |-> PageOf(parts, dim, results[dim], stockLengths[dim])]

\* =================================================================== state
\* App::run: the parts list, the stock length of each dimension class, whether
\* results are shown, and the stored plans.  The input fields, the popup and the
\* path of the last report do not influence any of these and are left out.
VARIABLES parts, stockLengths, showResults, optimizationResults

\* one call of optimizeCuts followed by generatePDF on its plan: the arguments
\* (cparts, cstock), the position in the call (pc), the sorted cuts still to
\* place (allParts), the in/out plan (result), how the call ended (outcome) and
\* the page generatePDF writes for the plan (page)
VARIABLES cparts, cstock, pc, allParts, result, outcome, page

appVars == <<parts, stockLengths, showResults, optimizationResults>>
coreVars == <<cparts, cstock, pc, allParts, result, outcome, page>>
vars == <<parts, stockLengths, showResults, optimizationResults,
          cparts, cstock, pc, allParts, result, outcome, page>>

\* a map with no entry
EmptyMap == [x \in {} |-> 0]

\* the state of App::run before the first frame
AppInit ==
    /\ parts = <<>>
    /\ stockLengths = EmptyMap
    /\ showResults = FALSE
    /\ optimizationResults = EmptyMap

\* no call of the core functions in progress
CoreIdle ==
    /\ cparts = <<>>
    /\ cstock = 0
    /\ pc = "idle"
    /\ allParts = <<>>
    /\ result = <<>>
    /\ outcome = "none"
    /\ page = EmptyMap

RECURSIVE TotalQuantity(_)
TotalQuantity(ps) ==
    IF ps = <<>> THEN 0 ELSE Head(ps).quantity + TotalQuantity(Tail(ps))

\* every parts list of one dimension class of up to MaxParts parts and up to
\* MaxCuts cuts
PartLists(numbers, lengths, quantities) ==
    {ps \in UNION {[1..n -> {Part(pn, l, q, CoreDim) :
                                pn \in numbers, l \in lengths, q \in quantities}] :
                      n \in 0..MaxParts} :
        TotalQuantity(ps) <= MaxCuts}

\* ---------------------------------------------- optimizeCuts, step by step
\* lines 7-13: expand the quantities and sort
SortCuts ==
    /\ pc = "start"
    /\ allParts' = SortDesc(ExpandParts(cparts))
    /\ pc' = "placing"
    /\ UNCHANGED <<cparts, cstock, result, outcome, page>>
    /\ UNCHANGED appVars

\* lines 15-27: one iteration of the placement loop
PlaceNext ==
    /\ pc = "placing"
    /\ allParts # <<>>
    /\ result' = PlaceCut(result, Head(allParts), cstock * Inch)
    /\ allParts' = Tail(allParts)
    /\ UNCHANGED <<cparts, cstock, pc, outcome, page>>
    /\ UNCHANGED appVars

\* line 28: the loop is over and the function returns; it has no other exit
Return ==
    /\ pc = "placing"
    /\ allParts = <<>>
    /\ pc' = "optimized"
    /\ outcome' = "returned"
    /\ UNCHANGED <<cparts, cstock, allParts, result, page>>
    /\ UNCHANGED appVars

\* generatePDF on the plan just produced, for the same parts
Attribute ==
    /\ pc = "optimized"
    /\ page' = PageOf(cparts, CoreDim, result, cstock)
    /\ pc' = "done"
    /\ UNCHANGED <<cparts, cstock, allParts, result, outcome>>
    /\ UNCHANGED appVars

CoreNext == SortCuts \/ PlaceNext \/ Return \/ Attribute

\* well-formed groups: positive lengths, quantities and stock length
CoreInit ==
    /\ AppInit
    /\ cparts \in PartLists(PartNumbers, Lengths, Quantities)
    /\ cstock \in StockInches
    /\ pc = "start"
    /\ allParts = <<>>
    /\ result = <<>>
    /\ outcome = "none"
    /\ page = EmptyMap

SpecCore == CoreInit /\ [][CoreNext]_vars

\* groups of at least one part as a caller may hand them to optimizeCuts
\* unchecked: lengths, quantities and the stock length may be zero
RawInit ==
    /\ AppInit
    /\ cparts \in PartLists({"P1"}, {30 * Inch, 50 * Inch} \cup BadLengths,
                            {1, 2} \cup BadQuantities) \ {<<>>}
    /\ cstock \in {50, 100} \cup BadStockInches
    /\ pc = "start"
    /\ allParts = <<>>
    /\ result = <<>>
    /\ outcome = "none"
    /\ page = EmptyMap

SpecRaw == RawInit /\ [][CoreNext]_vars

\* well-formed groups of up to MaxNearParts parts whose lengths are 40" or
\* 40.005": the smallest groups in which a length held by two records has a
\* neighbour within the tolerance
NearInit ==
    /\ AppInit
    /\ cparts \in UNION {[1..n -> {Part(pn, l, q, CoreDim) :
                                     pn \in PartNumbers,
                                     l \in {40 * Inch, 40 * Inch + 5},
                                     q \in {1, 2}}] : n \in 0..MaxNearParts}
    /\ cstock \in {50, 100}
    /\ pc = "start"
    /\ allParts = <<>>
    /\ result = <<>>
    /\ outcome = "none"
    /\ page = EmptyMap

SpecNear == NearInit /\ [][CoreNext]_vars

\* ----------------------------------------------------------------- App::run
RECURSIVE ClusterFold(_, _)
\* partsByDimension[part.dimension].push_back(part), for every part in order
ClusterFold(ps, acc) ==
    IF ps = <<>> THEN acc
    ELSE LET part == Head(ps)
             d == part.dimension
         IN ClusterFold(Tail(ps),
                [x \in DOMAIN acc \cup {d} |->
                    IF x = d
                    THEN (IF d \in DOMAIN acc THEN Append(acc[d], part) ELSE <<part>>)
                    ELSE acc[x]])

partsByDimension(ps) == ClusterFold(ps, EmptyMap)

\* mutant of WithDefaults: if (length < 1) length = 1 is missing
WithDefaultsNoClamp(ps, stocks) ==
    [d \in DOMAIN stocks \cup {ps[i].dimension : i \in 1..Len(ps)} |->
        IF d \in DOMAIN stocks THEN stocks[d] ELSE DefaultStockLength]

\* if (!stockLengths.contains(part.dimension)) stockLengths[part.dimension] = 288
\* followed by if (length < 1) length = 1 for every entry
WithDefaults(ps, stocks) ==
    [d \in DOMAIN stocks \cup {ps[i].dimension : i \in 1..Len(ps)} |->
        LET v == IF d \in DOMAIN stocks THEN stocks[d] ELSE DefaultStockLength
        IN IF v < 1 THEN 1 ELSE v]

\* mutant of OptimizeHandler: neither optimizationResults.clear() nor
\* optimizationResults[dim].clear() is done, so optimizeCuts appends to the
\* stored plan
OptimizeHandlerAppend(results, ps, stocks) ==
    LET byDim == partsByDimension(ps)
    IN [dim \in DOMAIN results \cup DOMAIN byDim |->
           IF dim \in DOMAIN byDim
           THEN optimizeCuts(byDim[dim], stocks[dim] * Inch,
                             IF dim \in DOMAIN results THEN results[dim] ELSE <<>>)
           ELSE results[dim]]

\* mutant of OptimizeHandler: optimizationResults.clear() is missing, only the
\* entries of the classes that have parts are cleared and recomputed
OptimizeHandlerKeep(results, ps, stocks) ==
    LET byDim == partsByDimension(ps)
    IN [dim \in DOMAIN results \cup DOMAIN byDim |->
           IF dim \in DOMAIN byDim
           THEN optimizeCuts(byDim[dim], stocks[dim] * Inch, <<>>)
           ELSE results[dim]]

\* the body of if (ImGui::Button("Optimize")): clear the stored plans, then run
\* optimizeCuts on a cleared entry for every dimension class that has parts
OptimizeHandler(results, ps, stocks) ==
    LET byDim == partsByDimension(ps)
    IN [dim \in DOMAIN byDim |-> optimizeCuts(byDim[dim], stocks[dim] * Inch, <<>>)]

\* mutant of AddPart: if (inputLength > 0 && inputQty > 0) is missing
AddPartUnchecked(n, l, q, d) ==
    /\ Len(parts) < MaxAppParts
    /\ parts' = Append(parts, Part(n, l, q, d))
    /\ showResults' = FALSE
    /\ stockLengths' = WithDefaults(parts', stockLengths)
    /\ UNCHANGED optimizationResults
    /\ UNCHANGED coreVars

\* Add Part with the fields as typed; refused unless length and quantity are
\* positive.  The rest of the frame gives a new dimension class its default
\* stock length.
AddPart(n, l, q, d) ==
    /\ Len(parts) < MaxAppParts
    /\ IF l > 0 /\ q > 0
       THEN /\ parts' = Append(parts, Part(n, l, q, d))
            /\ showResults' = FALSE
       ELSE UNCHANGED <<parts, showResults>>
    /\ stockLengths' = WithDefaults(parts', stockLengths)
    /\ UNCHANGED optimizationResults
    /\ UNCHANGED coreVars

\* Delete on row i (1-based): parts.erase(parts.begin() + i)
DeletePart(i) ==
    /\ i \in 1..Len(parts)
    /\ parts' = [k \in 1..(Len(parts) - 1) |-> IF k < i THEN parts[k] ELSE parts[k + 1]]
    /\ showResults' = FALSE
    /\ stockLengths' = WithDefaults(parts', stockLengths)
    /\ UNCHANGED optimizationResults
    /\ UNCHANGED coreVars

\* a value typed into the stock length field of a dimension class
EditStockLength(d, v) ==
    /\ d \in DOMAIN stockLengths
    /\ stockLengths' = WithDefaults(parts, [stockLengths EXCEPT ![d] = v])
    /\ UNCHANGED <<parts, showResults, optimizationResults>>
    /\ UNCHANGED coreVars

Optimize ==
    /\ optimizationResults' = OptimizeHandler(optimizationResults, parts, stockLengths)
    /\ showResults' = TRUE
    /\ UNCHANGED <<parts, stockLengths>>
    /\ UNCHANGED coreVars

\* Generate PDF is offered only while results are shown; it writes the report
\* generatePDF(optimizationResults, stockLengths, parts) to a new file and
\* changes nothing of the state above
GeneratePDF ==
    /\ showResults
    /\ UNCHANGED <<parts, stockLengths, showResults, optimizationResults>>
    /\ UNCHANGED coreVars

Init == AppInit /\ CoreIdle

Next ==
    \/ \E n \in AppPartNumbers, l \in AppLengths, q \in AppQuantities, d \in Dims :
          AddPart(n, l, q, d)
    \/ \E i \in 1..MaxAppParts : DeletePart(i)
    \/ \E d \in Dims, v \in StockEdits : EditStockLength(d, v)
    \/ Optimize
    \/ GeneratePDF

Spec == Init /\ [][Next]_vars

\* ================================================================== claims
\* every cut of the plan being built or returned, as <<stock, position>>
CutsOf(stocks) == UNION {{<<s, p>> : p \in 1..Len(stocks[s])} : s \in 1..Len(stocks)}

Finished == pc \in {"optimized", "done"}

\* C1: at every step of optimizeCuts and in the final plan, the cut lengths of
\* every bin sum to at most the stock length (the claim as stated; the code
\* breaks it for a part longer than the stock, see C4)
C1_CapacityInvariant ==
    \A s \in 1..Len(result) : Used(result[s]) <= cstock * Inch

\* the number of cuts of exactly length l in a plan
CutCount(stocks, l) == Cardinality({c \in CutsOf(stocks) : stocks[c[1]][c[2]] = l})

\* the summed quantity of the parts of exactly length l
Demand(ps, l) == TotalQuantity(SelectSeq(ps, LAMBDA p : p.length = l))

\* C2: the plan optimizeCuts returns holds, for every length, as many cuts of
\* that length as the parts of that length demand, and no cut of any other
\* length; so the number of cuts is the sum of the quantities
C2_DemandConservation ==
    Finished =>
        /\ \A l \in Lengths : CutCount(result, l) = Demand(cparts, l)
        /\ \A c \in CutsOf(result) : result[c[1]][c[2]] \in Lengths
        /\ Cardinality(CutsOf(result)) = TotalQuantity(cparts)

\* C2 witness: a finished plan of several bins for two parts of one length
C2_Witness ==
    /\ pc = "done"
    /\ Len(cparts) = 2
    /\ cparts[1].length = cparts[2].length
    /\ TotalQuantity(cparts) >= 3
    /\ Len(result) >= 2

\* the cuts of the written page on which the ID k is drawn
CutsWithID(pg, k) ==
    {c \in UNION {{<<s, p>> : p \in DOMAIN pg.diagram[s].cuts} : s \in DOMAIN pg.diagram} :
        pg.diagram[c[1]].cuts[c[2]].partID = k}

\* C3: every cut is attributed to a part record of the catalog (the ID drawn on
\* it is the catalog position of a record of that part number and length), and
\* every record is attributed as many cuts as its quantity (the claim as stated)
C3_AttributionTotality ==
    pc = "done" =>
        /\ \A s \in DOMAIN page.diagram : \A p \in DOMAIN page.diagram[s].cuts :
              LET cut == page.diagram[s].cuts[p]
              IN /\ cut.partID \in 1..Len(cparts)
                 /\ cparts[cut.partID].part_number = cut.part_number
                 /\ cparts[cut.partID].length = cut.length
        /\ \A k \in 1..Len(cparts) :
              Cardinality(CutsWithID(page, k)) = cparts[k].quantity

\* some part is longer than the stock
Infeasible == \E k \in 1..Len(cparts) : cparts[k].length > cstock * Inch

\* C4: a part longer than the stock makes optimizeCuts fail with
\* InfeasibleDemandError: no cut longer than the stock is ever placed and no
\* plan is returned (the claim as stated)
C4_InfeasibleRejected ==
    Infeasible =>
        /\ \A c \in CutsOf(result) : result[c[1]][c[2]] <= cstock * Inch
        /\ Finished => (outcome = "InfeasibleDemandError" /\ result = <<>>)

\* a quantity, a length or the stock length is not positive
Malformed ==
    \/ cstock <= 0
    \/ \E k \in 1..Len(cparts) : cparts[k].quantity <= 0 \/ cparts[k].length <= 0

\* C5: malformed input makes optimizeCuts report ValidationError: no bin is
\* produced and no plan is returned (the claim as stated)
C5_ValidationRejected ==
    Malformed =>
        /\ result = <<>>
        /\ Finished => outcome = "ValidationError"

\* the parts of Scenario A and of Scenario B
ScenarioA == <<Part("P1", 50 * Inch, 2, CoreDim), Part("P2", 30 * Inch, 3, CoreDim)>>
ScenarioB == <<Part("P1", 40 * Inch, 1, CoreDim), Part("P2", 40 * Inch, 2, CoreDim)>>

\* the part numbers drawn on the cuts of stock s of the written page, in order
NumbersOn(pg, s) == [p \in DOMAIN pg.diagram[s].cuts |-> pg.diagram[s].cuts[p].part_number]

\* the IDs drawn on the cuts of stock s of the written page, in order
IDsOn(pg, s) == [p \in DOMAIN pg.diagram[s].cuts |-> pg.diagram[s].cuts[p].partID]

\* the bins (numbered from 0, as Bin0, Bin1, ...) listed in the Stocks column
\* of row k; the column prints bin b as stock number b + 1
BinsOfRow(pg, k) == {pg.rows[k].stocks.nums[i] - 1 : i \in DOMAIN pg.rows[k].stocks.nums}

\* C7: Scenario B (P1 40" x 1, P2 40" x 2, stock 50") gives the three bins
\* [40], [40], [40]; the cut of Bin0 is attributed to P1, those of Bin1 and Bin2
\* to P2, so P1 counts 1 cut and P2 counts 2
C7_ScenarioB ==
    (cparts = ScenarioB /\ cstock = 50) =>
        /\ Finished => result = <<<<40 * Inch>>, <<40 * Inch>>, <<40 * Inch>>>>
        /\ pc = "done" =>
              /\ NumbersOn(page, 1) = <<"P1">> /\ IDsOn(page, 1) = <<1>>
              /\ NumbersOn(page, 2) = <<"P2">> /\ IDsOn(page, 2) = <<2>>
              /\ NumbersOn(page, 3) = <<"P2">> /\ IDsOn(page, 3) = <<2>>
              /\ Cardinality(CutsWithID(page, 1)) = 1
              /\ Cardinality(CutsWithID(page, 2)) = 2

\* C7 witness: Scenario B has been optimized and attributed
C7_Witness == cparts = ScenarioB /\ cstock = 50 /\ pc = "done" /\ Len(result) = 3

\* C8: Scenario A (P1 50" x 2, P2 30" x 3, stock 100") gives Bin0 = [50, 50]
\* (used 100, waste 0) and Bin1 = [30, 30, 30] (used 90, waste 10); both 50" cuts
\* are attributed to P1 and the three 30" cuts to P2; P1 is reported in bin set
\* {0} and P2 in bin set {1}
C8_ScenarioA ==
    (cparts = ScenarioA /\ cstock = 100) =>
        /\ Finished => result = <<<<50 * Inch, 50 * Inch>>, <<30 * Inch, 30 * Inch, 30 * Inch>>>>
        /\ pc = "done" =>
              /\ page.diagram[1].totalUsed = 100 * Inch /\ page.diagram[1].waste = 0
              /\ page.diagram[2].totalUsed = 90 * Inch /\ page.diagram[2].waste = 10 * Inch
              /\ NumbersOn(page, 1) = <<"P1", "P1">> /\ IDsOn(page, 1) = <<1, 1>>
              /\ NumbersOn(page, 2) = <<"P2", "P2", "P2">> /\ IDsOn(page, 2) = <<2, 2, 2>>
              /\ page.rows[1].part_number = "P1" /\ page.rows[1].stocks.kind = "list"
              /\ BinsOfRow(page, 1) = {0}
              /\ page.rows[2].part_number = "P2" /\ page.rows[2].stocks.kind = "list"
              /\ BinsOfRow(page, 2) = {1}

\* C8 witness: Scenario A has been optimized and attributed
C8_Witness == cparts = ScenarioA /\ cstock = 100 /\ pc = "done" /\ Len(result) = 2

\* two records of the group carry the same part number
SharedPartNumber ==
    \E j, k \in 1..Len(cparts) : j # k /\ cparts[j].part_number = cparts[k].part_number

\* no two lengths of the group differ by less than the tolerance without being equal
ExactLengths ==
    \A j, k \in 1..Len(cparts) :
        Near(cparts[j].length, cparts[k].length) => cparts[j].length = cparts[k].length

\* C9: records that carry the same part number are still distinct records: each
\* record has its own row of the summary, and the cuts carrying its row's ID are
\* as many as its own quantity (the claim as stated)
C9_DistinctRecords ==
    (pc = "done" /\ SharedPartNumber /\ ExactLengths) =>
        /\ Len(page.rows) = Len(cparts)
        /\ \A k \in 1..Len(cparts) :
              /\ page.rows[k].part_number = cparts[k].part_number
              /\ page.rows[k].length = cparts[k].length
              /\ page.rows[k].quantity = cparts[k].quantity
              /\ Cardinality(CutsWithID(page, page.rows[k].ID)) = cparts[k].quantity


\* a map cut down to the keys in S
Restrict(f, S) == [x \in DOMAIN f \cap S |-> f[x]]

\* what Optimize stores when pressed in the current state
PlansNow == OptimizeHandler(optimizationResults, parts, stockLengths)

\* what Generate PDF writes for the plans given
ReportOf(plans) == generatePDF(plans, stockLengths, parts)

C10_Independence ==
    \A d \in Dims :
        LET own == PartsOfDim(parts, d)
            ownStocks == Restrict(stockLengths, {d})
            ownPlans == OptimizeHandler(Restrict(optimizationResults, {d}), own, ownStocks)
            plans == PlansNow
        IN /\ (d \in DOMAIN plans) = (d \in DOMAIN ownPlans)
           /\ d \in DOMAIN plans => plans[d] = ownPlans[d]
           /\ (showResults /\ d \in DOMAIN optimizationResults) =>
                 ReportOf(optimizationResults)[d]
                    = generatePDF(Restrict(optimizationResults, {d}), ownStocks, own)[d]

\* C10 witness: results are shown for two dimension classes that hold parts of
\* the same length under different part numbers
C10_Witness ==
    /\ showResults
    /\ Len(parts) = 2
    /\ parts[1].dimension # parts[2].dimension
    /\ parts[1].length = parts[2].length
    /\ parts[1].part_number # parts[2].part_number
    /\ DOMAIN optimizationResults = Dims
    /\ optimizationResults = PlansNow

\* the dimension classes that have at least one part
ClassesWithParts == {parts[i].dimension : i \in 1..Len(parts)}

\* C11: every Optimize request discards the stored plans of earlier requests
\* and recomputes: afterwards the stored classes are exactly the classes that
\* have parts, and the plan of each is optimizeCuts applied to an empty result
\* with the current parts of the class and its current stock length
C11_FreshPlans ==
    [][(showResults' /\ Optimize) =>
          /\ DOMAIN optimizationResults' = ClassesWithParts
          /\ \A d \in ClassesWithParts :
                optimizationResults'[d]
                   = optimizeCuts(PartsOfDim(parts, d), stockLengths[d] * Inch, <<>>)]_vars

\* C11 witness: the plans of an earlier request are stored, one of them for a
\* class that has no parts any more, while another class has parts: the
\* request that follows has a class to discard and a class to recompute
C11_Witness ==
    /\ parts # <<>>
    /\ \E d \in DOMAIN optimizationResults :
          d \notin ClassesWithParts /\ optimizationResults[d] # <<>>
    /\ \E d \in ClassesWithParts : d \notin DOMAIN optimizationResults

\* C12: after any sequence of Add Part and Delete, every part of the list has
\* a positive length and a positive quantity (an Add Part with a length or a
\* quantity that is not positive leaves the list as it is)
C12_PositiveParts ==
    \A i \in 1..Len(parts) : parts[i].length > 0 /\ parts[i].quantity > 0

\* C12 witness: parts are in the list after additions and a deletion: a class
\* whose stock length is kept has lost its parts
C12_Witness ==
    /\ Len(parts) >= 2
    /\ \E d \in DOMAIN stockLengths : d \notin ClassesWithParts

\* C13: in every frame, when Optimize or Generate PDF can be pressed, every
\* class that has a part has a stock length, every stock length is at least 1,
\* and a class that gets its entry in this frame gets 288
C13_PositiveStockLengths ==
    /\ [](/\ ClassesWithParts \subseteq DOMAIN stockLengths
          /\ \A d \in DOMAIN stockLengths : stockLengths[d] >= 1)
    /\ [][\A d \in DOMAIN stockLengths' \ DOMAIN stockLengths :
              stockLengths'[d] = DefaultStockLength]_vars

\* C13 witness: a class that has parts shows the stock length 1, which only
\* the clamp of a smaller typed value produces
C13_Witness ==
    \E d \in ClassesWithParts : d \in DOMAIN stockLengths /\ stockLengths[d] = 1

\* the stocks, numbered as the report numbers them, that hold a cut on which
\* the ID k is drawn
StocksWithID(pg, k) == {c[1] : c \in CutsWithID(pg, k)}

\* C14: the Stocks column of every row of the summary lists exactly the stocks
\* that hold at least one cut attributed to the row's part, each once and in
\* ascending order (the claim as stated)
C14_StocksColumn ==
    pc = "done" =>
        \A k \in DOMAIN page.rows :
            /\ page.rows[k].stocks.kind = "list"
            /\ page.rows[k].stocks.nums = Ascending(StocksWithID(page, page.rows[k].ID))

\* C15: every step of the placement loop takes the next cut of the sorted list
\* and either appends it to the lowest-numbered stock whose used length plus
\* the cut is at most the stock length, leaving all else as it is, or, only
\* when no stock has room, appends a new stock holding just that cut; so the
\* cut exceeds the room of every stock before the one it lands in
C15_FirstFit ==
    [][(pc = "placing" /\ allParts # <<>>) =>
          LET cut == Head(allParts)
              room(i) == Used(result[i]) + cut <= cstock * Inch
          IN \E j \in 1..Len(result') :
                /\ \A i \in 1..(j - 1) : ~room(i)
                /\ IF j <= Len(result)
                   THEN /\ room(j)
                        /\ Len(result') = Len(result)
                        /\ result'[j] = Append(result[j], cut)
                   ELSE /\ Len(result') = Len(result) + 1
                        /\ result'[j] = <<cut>>
                /\ \A i \in 1..Len(result) : i # j => result'[i] = result[i]]_vars

\* C15 witness: a finished plan in which the last cut of a stock would also
\* have fitted a later stock that was already open when the cut was placed
\* (that stock starts with a longer cut, and longer cuts are placed first)
C15_Witness ==
    /\ Finished
    /\ \E i, j \in 1..Len(result) :
          /\ i < j
          /\ Len(result[i]) >= 2
          /\ result[i][Len(result[i])] < result[j][1]
          /\ Used(result[j]) + result[i][Len(result[i])] <= cstock * Inch

\* C20: in the plan optimizeCuts returns every stock holds at least one cut,
\* the cut lengths of every stock do not increase in the order the cuts were
\* placed, and the first cut of a stock is no longer than the first cut of any
\* earlier stock
C20_NonIncreasing ==
    Finished =>
        /\ \A s \in 1..Len(result) : result[s] # <<>>
        /\ \A s \in 1..Len(result) : \A p \in 1..(Len(result[s]) - 1) :
              result[s][p] >= result[s][p + 1]
        /\ \A s, t \in 1..Len(result) : s < t => result[s][1] >= result[t][1]

\* C20 witness: a returned plan of several stocks, one of them holding cuts of
\* two lengths, for a parts list that names the shorter part first
C20_Witness ==
    /\ Finished
    /\ Len(cparts) = 2
    /\ cparts[1].length < cparts[2].length
    /\ Len(result) >= 2
    /\ \E s \in 1..Len(result) : Len(result[s]) >= 2 /\ result[s][1] > result[s][2]

\* every expanded demand tagged with the catalog position of its record, in
\* catalog order and, within a record, in order of occurrence
RECURSIVE TaggedDemands(_, _)
TaggedDemands(ps, j) ==
    IF j > Len(ps) THEN <<>>
    ELSE Repeat([length |-> ps[j].length, record |-> j], ps[j].quantity)
            \o TaggedDemands(ps, j + 1)

RECURSIVE InsertTagged(_, _)
InsertTagged(x, s) ==
    IF s = <<>> \/ x.length >= Head(s).length THEN <<x>> \o s
    ELSE <<Head(s)>> \o InsertTagged(x, Tail(s))

\* the tagged demands by length descending; demands of equal length keep
\* their order (catalog position, then occurrence)
RECURSIVE SortTagged(_)
SortTagged(s) == IF s = <<>> THEN <<>> ELSE InsertTagged(Head(s), SortTagged(Tail(s)))

RECURSIVE UsedTagged(_)
UsedTagged(stock) ==
    IF stock = <<>> THEN 0 ELSE Head(stock).length + UsedTagged(Tail(stock))

\* first-fit placement of tagged demands
RECURSIVE PlaceTagged(_, _, _)
PlaceTagged(demands, stockLength, plan) ==
    IF demands = <<>> THEN plan
    ELSE LET x == Head(demands)
             fits == {i \in 1..Len(plan) : UsedTagged(plan[i]) + x.length <= stockLength}
         IN PlaceTagged(Tail(demands), stockLength,
                        IF fits = {} THEN Append(plan, <<x>>)
                        ELSE [plan EXCEPT ![MinOf(fits)] = Append(@, x)])

\* the plan of the group with every cut tagged by the demand placed there
TaggedPlan == PlaceTagged(SortTagged(TaggedDemands(cparts, 1)), cstock * Inch, <<>>)

\* C16: with every demand tagged by its record and demands of equal length
\* ordered by catalog position, then occurrence, the tagged plan has the cuts
\* of the returned plan, and the record attribution selects for a cut is the
\* tag of the demand placed at that position (the claim as stated)
C16_TagConsistency ==
    pc = "done" =>
        /\ Len(TaggedPlan) = Len(result)
        /\ \A s \in 1..Len(result) :
              /\ Len(TaggedPlan[s]) = Len(result[s])
              /\ \A p \in 1..Len(result[s]) :
                    /\ TaggedPlan[s][p].length = result[s][p]
                    /\ SelectedRecord(cparts, CoreDim, result, s, p) = TaggedPlan[s][p].record

\* C17: for a plan optimizeCuts produced from the same parts, attribution
\* selects a part for every cut: the outcome in which no part matches (the
\* part number stays empty and the ID stays 1) is never reached (the claim as
\* stated)
C17_NoFallback ==
    pc = "done" =>
        \A c \in CutsOf(result) : SelectedRecord(cparts, CoreDim, result, c[1], c[2]) # 0

\* C18: the parts that are candidates for a cut are the parts whose length is
\* within the tolerance of the cut's length, the same relation by which the
\* earlier cuts of 'that length' are counted (the claim as stated)
C18_OneLengthRelation ==
    pc = "done" =>
        \A c \in CutsOf(result) :
            LET partLength == result[c[1]][c[2]]
                records == RecordsWithLength(cparts, CoreDim, partLength)
            IN /\ {records[i] : i \in 1..Len(records)}
                     = {j \in 1..Len(cparts) : Near(cparts[j].length, partLength)}
               /\ cutsSeenSoFar(result, c[1], c[2], partLength)
                     = Cardinality({d \in CutsOf(result) :
                                       /\ Near(result[d[1]][d[2]], partLength)
                                       /\ \/ d[1] < c[1]
                                          \/ d[1] = c[1] /\ d[2] < c[2]})

\* the token stream of one length: in catalog order, the position of each
\* record of that length repeated quantity times
RECURSIVE TokenStream(_, _)
TokenStream(ps, records) ==
    IF records = <<>> THEN <<>>
    ELSE Repeat(Head(records), ps[Head(records)].quantity) \o TokenStream(ps, Tail(records))

\* the record a single forward pass over the plan pops for one cut: the cursor
\* of the cut's length has advanced once for every earlier cut of that length;
\* 0 when the stream is used up
TokenPass(ps, dim, stocks, stockIndex, partIndex) ==
    LET partLength == stocks[stockIndex][partIndex]
        stream == TokenStream(ps, RecordsWithLength(ps, dim, partLength))
        cursor == Cardinality({d \in CutsOf(stocks) :
                                  /\ stocks[d[1]][d[2]] = partLength
                                  /\ \/ d[1] < stockIndex
                                     \/ d[1] = stockIndex /\ d[2] < partIndex})
    IN IF cursor < Len(stream) THEN stream[cursor + 1] ELSE 0

\* C19: for every cut, the part generatePDF selects by recounting the earlier
\* cuts is the record the forward pass over the token streams pops (the claim
\* as stated)
C19_TokenPassEquivalence ==
    pc = "done" =>
        \A c \in CutsOf(result) :
            SelectedRecord(cparts, CoreDim, result, c[1], c[2])
               = TokenPass(cparts, CoreDim, result, c[1], c[2])

\* C21: whenever results are shown, the stored plan of every class is what
\* optimizeCuts yields for the current parts of the class and its current stock
\* length; so every stored stock is used up to at most the stock length now
\* configured, and no waste the report prints is negative (the claim as stated)
C21_PlansCurrent ==
    showResults =>
        /\ DOMAIN optimizationResults = ClassesWithParts
        /\ \A d \in DOMAIN optimizationResults :
              /\ optimizationResults[d]
                    = optimizeCuts(PartsOfDim(parts, d), stockLengths[d] * Inch, <<>>)
              /\ \A s \in 1..Len(optimizationResults[d]) :
                    /\ Used(optimizationResults[d][s]) <= stockLengths[d] * Inch
                    /\ ReportOf(optimizationResults)[d].diagram[s].waste >= 0

\* C22: in the plan optimizeCuts returns for positive cut lengths, starting
\* from an empty result, the used lengths of any two different stocks sum to
\* more than the stock length; so at most one stock is filled to half the
\* stock length or less
C22_NoTwoMergeable ==
    Finished =>
        /\ \A s, t \in 1..Len(result) :
              s # t => Used(result[s]) + Used(result[t]) > cstock * Inch
        /\ Cardinality({s \in 1..Len(result) : 2 * Used(result[s]) <= cstock * Inch}) <= 1

\* C22 witness: a returned plan of three or more stocks, one holding several
\* cuts and one filled to half the stock length or less
C22_Witness ==
    /\ Finished
    /\ Len(result) >= 3
    /\ \E s \in 1..Len(result) : Len(result[s]) >= 2
    /\ \E s \in 1..Len(result) : 2 * Used(result[s]) <= cstock * Inch

\* the stocks listed in the Stocks column of row k of the written page
ListedStocks(pg, k) ==
    IF pg.rows[k].stocks.kind = "list"
    THEN {pg.rows[k].stocks.nums[i] : i \in DOMAIN pg.rows[k].stocks.nums}
    ELSE {}

\* C23: the two passes agree on every cut: the ID drawn on a cut is the ID of
\* the part the summary pass books the cut on; so a stock is listed in the
\* Stocks column of a part exactly if one of its cuts carries the part's ID;
\* and a part's ID is its position among the parts of the class in catalog
\* order (the claim as stated)
C23_PassesAgree ==
    pc = "done" =>
        /\ \A c \in CutsOf(result) :
              LET partID == page.diagram[c[1]].cuts[c[2]].partID
              IN /\ partID \in DOMAIN page.rows
                 /\ page.rows[partID].part_number
                       = SummaryCut(lengthToPartMap(cparts, CoreDim), result, c[1], c[2])
        /\ \A k \in DOMAIN page.rows : \A b \in 1..Len(result) :
              (b \in ListedStocks(page, k)) = (b \in StocksWithID(page, page.rows[k].ID))
        /\ Len(page.rows) = Len(cparts)
        /\ \A k \in DOMAIN page.rows :
              /\ page.rows[k].ID = k
              /\ k <= Len(cparts) =>
                    /\ page.rows[k].part_number = cparts[k].part_number
                    /\ page.rows[k].length = cparts[k].length
                    /\ page.rows[k].quantity = cparts[k].quantity

====
